---- MODULE Spec2Model ----
(***************************************************************************)
(* Model of the transcription endpoint of the transcription-app:           *)
(* POST -> processAudioFile -> splitMP3IntoChunks / transcribeAudio ->     *)
(* generatePDF, in its two variants:                                       *)
(*   "route"    src/app/api/transcribe/route.ts (no retry)                 *)
(*   "part_000" src/unnamed/part_000 (retry on connection errors)          *)
(* One request is followed from the arrival of the form to the response.   *)
(* Sizes are counted in blocks of 5 MB (5 * 1024 * 1024 bytes), a byte of  *)
(* the model standing for one block; text is a sequence of one-character   *)
(* strings; the disk is a function from paths to contents.                 *)
(***************************************************************************)
EXTENDS Integers, Sequences, FiniteSets, TLC

VARIABLES
    variant,        \* which endpoint file handles the request
    apiKey,         \* process.env.OPENAI_API_KEY: "missing", "bad", "ok"
    hasFile,        \* formData.get('audio') is present
    fileName,       \* file.name
    fileSize,       \* file.size
    fileBuffer,     \* splitMP3IntoChunks' fileBuffer
    now,            \* Date.now()
    pc,             \* position of the request in POST / processAudioFile
    disk,           \* os.tmpdir(): path -> content
    tempFilePath,   \* POST's tempFilePath (NoPath = null)
    chunks,         \* splitMP3IntoChunks' chunks / processAudioFile's chunks
    chunksToClean,  \* processAudioFile's chunksToClean
    i,              \* loop index (split loop, transcription loop, finally loop)
    unit,           \* unit being transcribed: -1 the whole file, else chunk index
    retryCount,     \* transcribeAudio's retryCount
    transcriptions, \* processAudioFile's transcriptions
    error,          \* pending exception (NoError = none)
    result,         \* value returned by processAudioFile (NoResult = none)
    inflight,       \* number of API calls in flight
    callLog,        \* history: every API call made, with its outcome
    waitLog,        \* history: every backoff wait, with its unit
    exitKind,       \* history: how processAudioFile exited
    pdfCalls,       \* history: arguments of the generatePDF calls
    response,       \* the HTTP response (NoResponse = none yet)
    peer,           \* a second request handled at the same time (IdlePeer = none)
    firstRun,       \* the same request as the other variant handled it (NoRun = none)
    page            \* the upload page in the browser (ClosedPage = not open)

vars == <<variant, apiKey, hasFile, fileName, fileSize, fileBuffer,
          now, pc, disk,
          tempFilePath, chunks, chunksToClean, i, unit, retryCount,
          transcriptions, error, result, inflight, callLog, waitLog,
          exitKind, pdfCalls, response, peer, firstRun, page>>

----------------------------------------------------------------------------
(* Bounds *)

\* the largest upload is 2 * CHUNK_SIZE + ExtraSize bytes
ExtraSize == 1
\* Date.now() runs from 0 to MaxClock
MaxClock == 1
\* the largest size splitMP3IntoChunks is applied to on its own (SplitSpec)
MaxSplitSize == 13

(* Program constants *)

\* 25 MB and 20 MB, in blocks of 5 MB
MAX_SIZE == 5
CHUNK_SIZE == 4
MAX_RETRIES == 3
BackoffStep == 2000

MaxFileSize == 2 * CHUNK_SIZE + ExtraSize

NoPath == [kind |-> "none", idx |-> 0, t |-> 0, tail |-> <<>>]
NoError == [msg |-> "none", unit |-> 0, cause |-> "none", ext |-> <<>>]
NoResult == <<"none">>
NoResponse == [status |-> 0, kind |-> "none", error |-> NoError, transcript |-> <<>>]
NoRun == [variant |-> "none", tempFilePath |-> NoPath, chunks |-> <<>>,
          disk |-> <<>>, callLog |-> <<>>, pdfCalls |-> <<>>,
          exitKind |-> "none", uploadFailed |-> FALSE, response |-> NoResponse]
NoFile == [name |-> <<>>, type |-> "none"]
ClosedPage == [open |-> FALSE, file |-> NoFile, isProcessing |-> FALSE,
               progress |-> 0, transcription |-> "", error |-> "",
               posted |-> NoFile, awaiting |-> FALSE, timer |-> FALSE,
               windowFile |-> NoFile]
IdlePeer == [pc |-> "idle", fileName |-> <<>>, fileSize |-> 0,
             tempFilePath |-> NoPath, chunks |-> <<>>, i |-> 0]

Min(a, b) == IF a < b THEN a ELSE b

----------------------------------------------------------------------------
(* Text *)

SEPARATOR == <<"\n", "\n">>
Whitespace == {" ", "\n"}

UpperCase ==
    << "A", "B", "C", "D", "E", "F", "G", "H", "I", "J", "K", "L", "M",
       "N", "O", "P", "Q", "R", "S", "T", "U", "V", "W", "X", "Y", "Z" >>
LowerCase ==
    << "a", "b", "c", "d", "e", "f", "g", "h", "i", "j", "k", "l", "m",
       "n", "o", "p", "q", "r", "s", "t", "u", "v", "w", "x", "y", "z" >>

\* String.prototype.toLowerCase on one character
LowerChar(c) ==
    IF \E k \in 1..Len(UpperCase) : UpperCase[k] = c
    THEN LowerCase[CHOOSE k \in 1..Len(UpperCase) : UpperCase[k] = c]
    ELSE c

\* fault variant: the extension is compared as it is written
toLowerCase_asWritten(s) == s

toLowerCase(s) == [k \in 1..Len(s) |-> LowerChar(s[k])]

\* path.extname: from the last '.' of the name to its end; empty when there
\* is no '.' or when the only '.' is the first character
extname(name) ==
    LET dots == {k \in 1..Len(name) : name[k] = "."}
    IN  IF dots = {} THEN <<>>
        ELSE LET last == CHOOSE k \in dots : \A m \in dots : m <= k
             IN  IF last = 1 THEN <<>> ELSE SubSeq(name, last, Len(name))

SUPPORTED_FORMATS ==
    { <<".", "f", "l", "a", "c">>, <<".", "m", "4", "a">>,
      <<".", "m", "p", "3">>, <<".", "m", "p", "4">>,
      <<".", "m", "p", "e", "g">>, <<".", "m", "p", "g", "a">>,
      <<".", "o", "g", "a">>, <<".", "o", "g", "g">>,
      <<".", "w", "a", "v">>, <<".", "w", "e", "b", "m">> }

\* fault variant: any name with an extension passes
isSupportedFormat_anyExtension(name) == extname(name) # <<>>

isSupportedFormat(name) == toLowerCase(extname(name)) \in SUPPORTED_FORMATS

\* String.prototype.trim
RECURSIVE TrimLeft(_)
TrimLeft(s) ==
    IF s = <<>> THEN s
    ELSE IF Head(s) \in Whitespace THEN TrimLeft(Tail(s)) ELSE s

RECURSIVE TrimRight(_)
TrimRight(s) ==
    IF s = <<>> THEN s
    ELSE IF s[Len(s)] \in Whitespace THEN TrimRight(SubSeq(s, 1, Len(s) - 1))
    ELSE s

trim(s) == TrimRight(TrimLeft(s))

\* Array.prototype.join
RECURSIVE JoinFrom(_, _, _)
JoinFrom(list, k, sep) ==
    IF k > Len(list) THEN <<>>
    ELSE IF k = 1 THEN list[1] \o JoinFrom(list, 2, sep)
    ELSE sep \o list[k] \o JoinFrom(list, k + 1, sep)

\* fault variant: empty fragments are filtered out before joining
join_skipEmpty(list, sep) ==
    JoinFrom(SelectSeq(list, LAMBDA f : f # <<>>), 1, sep)

join(list, sep) == JoinFrom(list, 1, sep)

----------------------------------------------------------------------------
(* Bytes and chunks *)

\* the uploaded content (file.arrayBuffer()). The code never looks at the
\* value of a byte, so every byte carries its own offset: a byte that is
\* lost, repeated or moved shows in the content.
UploadBytes(size) == [p \in 1..size |-> (p - 1) % 256]

\* Buffer.prototype.slice(start, end): bytes start .. end-1, clamped
slice(buf, start, end) == SubSeq(buf, start + 1, Min(end, Len(buf)))

\* fault variant: Math.floor instead of Math.ceil
NumChunks_floor(size) == size \div CHUNK_SIZE

\* fault variant: one chunk more than Math.ceil gives
NumChunks_oneMore(size) == size \div CHUNK_SIZE + 1

\* Math.ceil(fileSize / CHUNK_SIZE)
NumChunks(size) == (size + CHUNK_SIZE - 1) \div CHUNK_SIZE

ChunkStart(k) == k * CHUNK_SIZE
ChunkEnd(k, size) == Min(ChunkStart(k) + CHUNK_SIZE, size)

UploadPath(t, name) == [kind |-> "upload", idx |-> 0, t |-> t, tail |-> name]
\* the basename of the upload path is upload_<t>_<name>
UploadBaseName(name) == <<"u", "_">> \o name
ChunkPath(k, t, ext) == [kind |-> "chunk", idx |-> k, t |-> t, tail |-> ext]

\* fs writeFile / unlink on the scratch directory
WriteFile(d, p, data) == [q \in DOMAIN d \cup {p} |-> IF q = p THEN data ELSE d[q]]
Unlink(d, p) == [q \in DOMAIN d \ {p} |-> d[q]]

ChunkFilesOnDisk == {p \in DOMAIN disk : p.kind = "chunk"}
UploadFilesOnDisk == {p \in DOMAIN disk : p.kind = "upload"}

----------------------------------------------------------------------------
(* Inputs *)

Variants == {"route", "part_000"}
ApiKeys == {"missing", "bad", "ok"}

FileNames ==
    { <<"a", ".", "M", "p", "3">>, <<"c", ".", "A", "i", "f", "f">>, <<"d">> }

\* what the transcription API can answer for one call
Fragments == { <<>>, <<" ">>, <<"a">> }

ApiErrors ==
    { [status |-> 401, code |-> "", message |-> "401 Unauthorized"],
      [status |-> 429, code |-> "", message |-> "429 Too Many Requests"],
      [status |-> 413, code |-> "", message |-> "413 Payload Too Large"],
      [status |-> 500, code |-> "", message |-> "500 Internal Server Error"],
      [status |-> 0, code |-> "ECONNREFUSED", message |-> "connect ECONNREFUSED"],
      [status |-> 0, code |-> "ENOTFOUND", message |-> "getaddrinfo ENOTFOUND"],
      [status |-> 0, code |-> "", message |-> "Connection error."] }

\* error.message.includes('Connection error')
IncludesConnectionError(m) == m = "Connection error."

----------------------------------------------------------------------------
(* transcribeAudio's catch block (part_000) *)

IsConnectionError(err) ==
    \/ err.code = "ECONNREFUSED"
    \/ err.code = "ENOTFOUND"
    \/ IncludesConnectionError(err.message)

Classify(err) ==
    IF err.status = 401 THEN "auth"
    ELSE IF err.status = 429 THEN "rate"
    ELSE IF err.status = 413 THEN "tooLarge"
    ELSE IF IsConnectionError(err) THEN "conn"
    ELSE "other"

\* fault variant: one retry too many
ShouldRetry_inclusive(class, count) == class = "conn" /\ count <= MAX_RETRIES

\* fault variant: every failure without a message of its own is retried
ShouldRetry_other(class, count) ==
    class \in {"conn", "other"} /\ count < MAX_RETRIES

\* fault variant: a rate-limit failure is retried like a connection failure
ShouldRetry_rateLimit(class, count) ==
    class \in {"conn", "rate"} /\ count < MAX_RETRIES

ShouldRetry(class, count) == class = "conn" /\ count < MAX_RETRIES

WaitTime(count) == (count + 1) * BackoffStep

\* the message of the Error that transcribeAudio throws
ThrownMessage(v, err) ==
    IF v = "route" THEN err.message
    ELSE CASE Classify(err) = "auth" -> "API key de OpenAI invalida"
           [] Classify(err) = "rate" -> "Limite de rate excedido"
           [] Classify(err) = "tooLarge" -> "El archivo es demasiado grande para este fragmento"
           [] Classify(err) = "conn" -> "Error de conexion con OpenAI despues de varios intentos"
           [] OTHER -> err.message

\* does this variant retry the call that failed with err
Retries(v, err, count) == v = "part_000" /\ ShouldRetry(Classify(err), count)

----------------------------------------------------------------------------
(* processAudioFile's decisions *)

\* fault variant: the threshold itself goes to the chunked path
IsDirect_strict(size) == size < MAX_SIZE

IsDirect(size) == size <= MAX_SIZE

\* fault variant: the length is tested without trimming
EmptyResult_noTrim(text) == Len(text) = 0

EmptyResult(text) == Len(trim(text)) = 0

----------------------------------------------------------------------------
Init ==
    /\ variant \in Variants
    /\ apiKey \in ApiKeys
    /\ hasFile \in BOOLEAN
    /\ fileName \in FileNames
    /\ fileSize \in 0..MaxFileSize
    /\ fileBuffer = <<>>
    /\ now = 0
    /\ pc = "start"
    /\ disk = <<>>
    /\ tempFilePath = NoPath
    /\ chunks = <<>>
    /\ chunksToClean = <<>>
    /\ i = 0
    /\ unit = -1
    /\ retryCount = 0
    /\ transcriptions = <<>>
    /\ error = NoError
    /\ result = NoResult
    /\ inflight = 0
    /\ callLog = <<>>
    /\ waitLog = <<>>
    /\ exitKind = "none"
    /\ pdfCalls = <<>>
    /\ response = NoResponse
    /\ peer = IdlePeer
    /\ firstRun = NoRun
    /\ page = ClosedPage

\* what the steps of the request never change: its form, the environment
\* the state of the other request and the record of the other variant
inputs == <<variant, apiKey, hasFile, fileName, fileSize, peer, firstRun, page>>
history == <<callLog, waitLog, pdfCalls>>

\* Date.now(): the clock may have advanced since it was last read
Clock == {t \in now..(now + 1) : t <= MaxClock}

JsonError(st, m) ==
    [status |-> st, kind |-> "json",
     error |-> [msg |-> m, unit |-> 0, cause |-> "none", ext |-> <<>>], transcript |-> <<>>]

----------------------------------------------------------------------------
(* POST *)

\* the credential checks and the form field check, each an early return
RejectEarly ==
    /\ pc = "start"
    /\ \/ /\ apiKey = "missing"
          /\ response' = JsonError(500, "API Key de OpenAI no configurada")
       \/ /\ apiKey = "bad"
          /\ variant = "part_000"
          /\ response' = JsonError(500, "API Key de OpenAI invalida")
       \/ /\ apiKey # "missing"
          /\ ~(apiKey = "bad" /\ variant = "part_000")
          /\ ~hasFile
          /\ response' = JsonError(400, "No se encontro el archivo de audio")
    /\ pc' = "done"
    /\ UNCHANGED <<inputs, history, fileBuffer, now, disk, tempFilePath, chunks,
                   chunksToClean, i, unit, retryCount, transcriptions, error,
                   result, inflight, exitKind>>

\* fault variant: the prefix of the credential is not looked at
Accepted_anyKey ==
    /\ apiKey # "missing"
    /\ hasFile

Accepted ==
    /\ apiKey # "missing"
    /\ ~(apiKey = "bad" /\ variant = "part_000")
    /\ hasFile

\* tempFilePath = upload_<Date.now()>_<name>; writeFile succeeds
WriteUploadOk ==
    /\ pc = "start"
    /\ Accepted
    /\ \E t \in Clock :
         /\ now' = t
         /\ tempFilePath' = UploadPath(t, fileName)
         /\ disk' = WriteFile(disk, UploadPath(t, fileName), UploadBytes(fileSize))
    /\ pc' = "process"
    /\ UNCHANGED <<inputs, history, fileBuffer, chunks, chunksToClean, i, unit,
                   retryCount, transcriptions, error, result, inflight,
                   exitKind, response>>

\* writeFile of the upload throws
WriteUploadFail ==
    /\ pc = "start"
    /\ Accepted
    /\ \E t \in Clock :
         /\ now' = t
         /\ tempFilePath' = UploadPath(t, fileName)
    /\ error' = [msg |-> "writeFile failed", unit |-> 0, cause |-> "none", ext |-> <<>>]
    /\ pc' = "catch"
    /\ UNCHANGED <<inputs, history, fileBuffer, disk, chunks, chunksToClean, i,
                   unit, retryCount, transcriptions, result, inflight,
                   exitKind, response>>

----------------------------------------------------------------------------
(* processAudioFile: entry *)

\* the format check, before the try block: the throw goes straight to POST
RejectFormat ==
    /\ pc = "process"
    /\ ~isSupportedFormat(fileName)
    /\ LET ext == toLowerCase(extname(fileName))
       IN  error' = [msg |-> "Formato no soportado", unit |-> 0,
                     cause |-> "none", ext |-> ext]
    /\ exitKind' = "format"
    /\ pc' = "catch"
    /\ UNCHANGED <<inputs, history, fileBuffer, now, disk, tempFilePath, chunks,
                   chunksToClean, i, unit, retryCount, transcriptions, result,
                   inflight, response>>

\* fileSize <= MAX_SIZE: transcribeAudio(filePath)
StartDirect ==
    /\ pc = "process"
    /\ isSupportedFormat(fileName)
    /\ IsDirect(fileSize)
    /\ unit' = -1
    /\ retryCount' = 0
    /\ pc' = "call"
    /\ UNCHANGED <<inputs, history, fileBuffer, now, disk, tempFilePath, chunks,
                   chunksToClean, i, transcriptions, error, result, inflight,
                   exitKind, response>>

\* fileSize > MAX_SIZE: splitMP3IntoChunks starts, readFile(filePath)
StartSplit ==
    /\ pc = "process"
    /\ isSupportedFormat(fileName)
    /\ ~IsDirect(fileSize)
    /\ fileBuffer' = disk[tempFilePath]
    /\ chunks' = <<>>
    /\ i' = 0
    /\ pc' = "split"
    /\ UNCHANGED <<inputs, history, now, disk, tempFilePath, chunksToClean,
                   unit, retryCount, transcriptions, error, result, inflight,
                   exitKind, response>>

----------------------------------------------------------------------------
(* splitMP3IntoChunks: one loop iteration per step *)

SplitExtension == extname(UploadBaseName(tempFilePath.tail))

\* writeFile(chunkPath, chunkBuffer) succeeds; chunks.push(chunkPath)
SplitWriteOk ==
    /\ pc = "split"
    /\ i < NumChunks(fileSize)
    /\ \E t \in Clock :
         LET chunkPath == ChunkPath(i, t, SplitExtension)
             chunkBuffer == slice(fileBuffer, ChunkStart(i), ChunkEnd(i, fileSize))
         IN  /\ now' = t
             /\ disk' = WriteFile(disk, chunkPath, chunkBuffer)
             /\ chunks' = Append(chunks, chunkPath)
    /\ i' = i + 1
    /\ UNCHANGED <<inputs, history, fileBuffer, pc, tempFilePath, chunksToClean,
                   unit, retryCount, transcriptions, error, result, inflight,
                   exitKind, response>>

\* writeFile(chunkPath, chunkBuffer) throws: splitMP3IntoChunks throws, and
\* processAudioFile's finally block runs with chunksToClean still empty
SplitWriteFail ==
    /\ pc = "split"
    /\ i < NumChunks(fileSize)
    /\ error' = [msg |-> "writeFile failed", unit |-> i + 1, cause |-> "none", ext |-> <<>>]
    /\ exitKind' = "splitFail"
    /\ i' = 0
    /\ pc' = "finally"
    /\ UNCHANGED <<inputs, history, fileBuffer, now, disk, tempFilePath, chunks,
                   chunksToClean, unit, retryCount, transcriptions, result,
                   inflight, response>>

\* return chunks; chunksToClean.push(...chunks)
SplitReturn ==
    /\ pc = "split"
    /\ i >= NumChunks(fileSize)
    /\ chunksToClean' = chunksToClean \o chunks
    /\ i' = 0
    /\ pc' = "loop"
    /\ UNCHANGED <<inputs, history, fileBuffer, now, disk, tempFilePath, chunks,
                   unit, retryCount, transcriptions, error, result, inflight,
                   exitKind, response>>

----------------------------------------------------------------------------
(* processAudioFile: the transcription loop *)

\* i < chunks.length: transcribeAudio(chunks[i])
LoopNext ==
    /\ pc = "loop"
    /\ i < Len(chunks)
    /\ unit' = i
    /\ retryCount' = 0
    /\ pc' = "call"
    /\ UNCHANGED <<inputs, history, fileBuffer, now, disk, tempFilePath, chunks,
                   chunksToClean, i, transcriptions, error, result, inflight,
                   exitKind, response>>

\* the loop is over
LoopEnd ==
    /\ pc = "loop"
    /\ i >= Len(chunks)
    /\ pc' = "join"
    /\ UNCHANGED <<inputs, history, fileBuffer, now, disk, tempFilePath, chunks,
                   chunksToClean, i, unit, retryCount, transcriptions, error,
                   result, inflight, exitKind, response>>

\* fault variant: the failed chunk gets a placeholder and the loop goes on
ChunkCatch_continue ==
    /\ pc = "chunkcatch"
    /\ transcriptions' = Append(transcriptions, <<"E">>)
    /\ error' = NoError
    /\ i' = i + 1
    /\ pc' = "loop"
    /\ UNCHANGED <<inputs, history, fileBuffer, now, disk, tempFilePath, chunks,
                   chunksToClean, unit, retryCount, result, inflight, exitKind,
                   response>>

\* the catch block around transcribeAudio(chunks[i]): rethrow, wrapped
ChunkCatch ==
    /\ pc = "chunkcatch"
    /\ error' = [msg |-> "Fallo la transcripcion del fragmento",
                 unit |-> i + 1, cause |-> error.msg, ext |-> <<>>]
    /\ exitKind' = "chunkFail"
    /\ i' = 0
    /\ pc' = "finally"
    /\ UNCHANGED <<inputs, history, fileBuffer, now, disk, tempFilePath, chunks,
                   chunksToClean, unit, retryCount, transcriptions, result,
                   inflight, response>>

----------------------------------------------------------------------------
(* transcribeAudio *)

\* the file the current unit is read from
UnitPath == IF unit = -1 THEN tempFilePath ELSE chunks[unit + 1]

\* fault variant: the call is issued without being awaited, and the loop
\* moves on to the next chunk
CallApi_noAwait ==
    /\ pc = "call"
    /\ inflight' = inflight + 1
    /\ callLog' = Append(callLog, [unit |-> unit, attempt |-> retryCount,
                                   path |-> UnitPath, status |-> -1,
                                   transient |-> FALSE, text |-> <<>>])
    /\ pc' = IF unit = -1 THEN "await" ELSE "loop"
    /\ i' = IF unit = -1 THEN i ELSE i + 1
    /\ UNCHANGED <<inputs, waitLog, pdfCalls, fileBuffer, now, disk,
                   tempFilePath, chunks, chunksToClean, unit, retryCount,
                   transcriptions, error, result, exitKind, response>>

\* openai.audio.transcriptions.create(...) is issued
CallApi ==
    /\ pc = "call"
    /\ inflight' = inflight + 1
    /\ callLog' = Append(callLog, [unit |-> unit, attempt |-> retryCount,
                                   path |-> UnitPath, status |-> -1,
                                   transient |-> FALSE, text |-> <<>>])
    /\ pc' = "await"
    /\ UNCHANGED <<inputs, waitLog, pdfCalls, fileBuffer, now, disk,
                   tempFilePath, chunks, chunksToClean, i, unit, retryCount,
                   transcriptions, error, result, exitKind, response>>

Resolved(st, tr, text) ==
    [callLog EXCEPT ![Len(callLog)].status = st, ![Len(callLog)].transient = tr,
                    ![Len(callLog)].text = text]

\* the call returns text: transcriptions.push(...)
ApiOk ==
    /\ pc = "await"
    /\ \E text \in Fragments :
         /\ transcriptions' = Append(transcriptions, text)
         /\ callLog' = Resolved(200, FALSE, text)
    /\ inflight' = inflight - 1
    /\ IF unit = -1
       THEN /\ pc' = "join"
            /\ i' = i
       ELSE /\ pc' = "loop"
            /\ i' = i + 1
    /\ UNCHANGED <<inputs, waitLog, pdfCalls, fileBuffer, now, disk,
                   tempFilePath, chunks, chunksToClean, unit, retryCount,
                   error, result, exitKind, response>>

\* the call fails and the failure is retried after a wait (part_000)
ApiFailRetry ==
    /\ pc = "await"
    /\ \E err \in ApiErrors :
         /\ Retries(variant, err, retryCount)
         /\ callLog' = Resolved(err.status, IsConnectionError(err), <<>>)
    /\ inflight' = inflight - 1
    /\ waitLog' = Append(waitLog, [unit |-> unit, ms |-> WaitTime(retryCount)])
    /\ pc' = "wait"
    /\ UNCHANGED <<inputs, pdfCalls, fileBuffer, now, disk, tempFilePath,
                   chunks, chunksToClean, i, unit, retryCount, transcriptions,
                   error, result, exitKind, response>>

\* fault variant: the retry does not count itself
RetryAfterWait_sameCount ==
    /\ pc = "wait"
    /\ retryCount' = retryCount
    /\ pc' = "call"
    /\ UNCHANGED <<inputs, history, fileBuffer, now, disk, tempFilePath, chunks,
                   chunksToClean, i, unit, transcriptions, error, result,
                   inflight, exitKind, response>>

\* the timer fires: return transcribeAudio(filePath, retryCount + 1)
RetryAfterWait ==
    /\ pc = "wait"
    /\ retryCount' = retryCount + 1
    /\ pc' = "call"
    /\ UNCHANGED <<inputs, history, fileBuffer, now, disk, tempFilePath, chunks,
                   chunksToClean, i, unit, transcriptions, error, result,
                   inflight, exitKind, response>>

\* the call fails and transcribeAudio throws
ApiFailThrow ==
    /\ pc = "await"
    /\ \E err \in ApiErrors :
         /\ ~Retries(variant, err, retryCount)
         /\ callLog' = Resolved(err.status, IsConnectionError(err), <<>>)
         /\ error' = [msg |-> ThrownMessage(variant, err), unit |-> 0,
                      cause |-> "none", ext |-> <<>>]
    /\ inflight' = inflight - 1
    /\ IF unit = -1
       THEN /\ pc' = "finally"
            /\ exitKind' = "directFail"
            /\ i' = 0
       ELSE /\ pc' = "chunkcatch"
            /\ exitKind' = exitKind
            /\ i' = i
    /\ UNCHANGED <<inputs, waitLog, pdfCalls, fileBuffer, now, disk,
                   tempFilePath, chunks, chunksToClean, unit, retryCount,
                   transcriptions, result, response>>

----------------------------------------------------------------------------
(* processAudioFile: join, the empty check, the finally block *)

\* fullTranscription = transcriptions.join('\n\n'), then return or throw
Join ==
    /\ pc = "join"
    /\ LET fullTranscription == join(transcriptions, SEPARATOR)
       IN  IF EmptyResult(fullTranscription)
           THEN /\ error' = [msg |-> "No se pudo obtener ninguna transcripcion",
                             unit |-> 0, cause |-> "none", ext |-> <<>>]
                /\ exitKind' = "empty"
                /\ result' = result
           ELSE /\ result' = fullTranscription
                /\ exitKind' = "returned"
                /\ error' = error
    /\ i' = 0
    /\ pc' = "finally"
    /\ UNCHANGED <<inputs, history, fileBuffer, now, disk, tempFilePath, chunks,
                   chunksToClean, unit, retryCount, transcriptions, inflight,
                   response>>

\* fault variant: the chunks are removed on the success path only
FinallyUnlink_successOnly ==
    /\ pc = "finally"
    /\ i < Len(chunksToClean)
    /\ disk' = IF error = NoError THEN Unlink(disk, chunksToClean[i + 1]) ELSE disk
    /\ i' = i + 1
    /\ UNCHANGED <<inputs, history, fileBuffer, now, pc, tempFilePath, chunks,
                   chunksToClean, unit, retryCount, transcriptions, error,
                   result, inflight, exitKind, response>>

\* for (const chunk of chunksToClean) await unlink(chunk).catch(() => {})
FinallyUnlink ==
    /\ pc = "finally"
    /\ i < Len(chunksToClean)
    /\ disk' = Unlink(disk, chunksToClean[i + 1])
    /\ i' = i + 1
    /\ UNCHANGED <<inputs, history, fileBuffer, now, pc, tempFilePath, chunks,
                   chunksToClean, unit, retryCount, transcriptions, error,
                   result, inflight, exitKind, response>>

\* the finally block is over: processAudioFile returns or throws to POST
FinallyExit ==
    /\ pc = "finally"
    /\ i >= Len(chunksToClean)
    /\ pc' = IF error = NoError THEN "pdf" ELSE "catch"
    /\ UNCHANGED <<inputs, history, fileBuffer, now, disk, tempFilePath, chunks,
                   chunksToClean, i, unit, retryCount, transcriptions, error,
                   result, inflight, exitKind, response>>

----------------------------------------------------------------------------
(* POST: the document, the catch block *)

\* generatePDF(file.name, transcription) and the 200 response
RespondPdf ==
    /\ pc = "pdf"
    /\ pdfCalls' = Append(pdfCalls, [name |-> fileName, text |-> result])
    /\ response' = [status |-> 200, kind |-> "pdf", error |-> NoError,
                    transcript |-> result]
    /\ pc' = "done"
    /\ UNCHANGED <<inputs, callLog, waitLog, fileBuffer, now, disk,
                   tempFilePath, chunks, chunksToClean, i, unit, retryCount,
                   transcriptions, error, result, inflight, exitKind>>

\* catch: unlink(tempFilePath) if it is set, then the 500 response
RespondError ==
    /\ pc = "catch"
    /\ disk' = IF tempFilePath # NoPath THEN Unlink(disk, tempFilePath) ELSE disk
    /\ response' = [status |-> 500, kind |-> "json", error |-> error,
                    transcript |-> <<>>]
    /\ pc' = "done"
    /\ UNCHANGED <<inputs, history, fileBuffer, now, tempFilePath, chunks,
                   chunksToClean, i, unit, retryCount, transcriptions, error,
                   result, inflight, exitKind>>

----------------------------------------------------------------------------
Next ==
    \/ RejectEarly
    \/ WriteUploadOk
    \/ WriteUploadFail
    \/ RejectFormat
    \/ StartDirect
    \/ StartSplit
    \/ SplitWriteOk
    \/ SplitWriteFail
    \/ SplitReturn
    \/ LoopNext
    \/ LoopEnd
    \/ ChunkCatch
    \/ CallApi
    \/ ApiOk
    \/ ApiFailRetry
    \/ RetryAfterWait
    \/ ApiFailThrow
    \/ Join
    \/ FinallyUnlink
    \/ FinallyExit
    \/ RespondPdf
    \/ RespondError

Spec == Init /\ [][Next]_vars

\* every awaited promise settles: the write, the API call, the timer and the
\* unlink resolve or reject, and the handler then takes its next step
\* the sizes at the edges of the size test and of the chunk count
EdgeSizes == {0, 1, MAX_SIZE, MAX_SIZE + 1, 2 * CHUNK_SIZE, MaxFileSize}

FairInit == Init /\ fileSize \in EdgeSizes

FairSpec == FairInit /\ [][Next]_vars /\ WF_vars(Next)

----------------------------------------------------------------------------
(* splitMP3IntoChunks on its own: the function applied to every size from  *)
(* 0 to MaxSplitSize, the file already read                                *)

SplitInit ==
    /\ variant \in Variants
    /\ apiKey = "ok"
    /\ hasFile = TRUE
    /\ fileName \in {n \in FileNames : isSupportedFormat(n)}
    /\ fileSize \in 0..MaxSplitSize
    /\ fileBuffer = UploadBytes(fileSize)
    /\ now = 0
    /\ pc = "split"
    /\ tempFilePath = UploadPath(0, fileName)
    /\ disk = WriteFile(<<>>, UploadPath(0, fileName), UploadBytes(fileSize))
    /\ chunks = <<>>
    /\ chunksToClean = <<>>
    /\ i = 0
    /\ unit = -1
    /\ retryCount = 0
    /\ transcriptions = <<>>
    /\ error = NoError
    /\ result = NoResult
    /\ inflight = 0
    /\ callLog = <<>>
    /\ waitLog = <<>>
    /\ exitKind = "none"
    /\ pdfCalls = <<>>
    /\ response = NoResponse
    /\ peer = IdlePeer
    /\ firstRun = NoRun
    /\ page = ClosedPage

SplitNext ==
    \/ SplitWriteOk
    \/ SplitWriteFail
    \/ SplitReturn

SplitSpec == SplitInit /\ [][SplitNext]_vars

----------------------------------------------------------------------------
(* The format check on its own: processAudioFile entered with a file name  *)
(* made of a stem and a tail, the upload already written                   *)

UpperChar(c) ==
    IF \E k \in 1..Len(LowerCase) : LowerCase[k] = c
    THEN UpperCase[CHOOSE k \in 1..Len(LowerCase) : LowerCase[k] = c]
    ELSE c

\* the allow-list written in upper case and with a capital first letter
AllCaps(s) == [k \in 1..Len(s) |-> UpperChar(s[k])]
Capitalised(s) == [k \in 1..Len(s) |-> IF k = 2 THEN UpperChar(s[k]) ELSE s[k]]

FormatStems == { <<>>, <<"a">>, <<"a", ".", "m", "p", "3">> }

FormatTails ==
    SUPPORTED_FORMATS
        \cup {AllCaps(e) : e \in SUPPORTED_FORMATS}
        \cup {Capitalised(e) : e \in SUPPORTED_FORMATS}
        \cup { <<>>, <<".">>, <<"m", "p", "3">>, <<".", "a", "a", "c">>,
               <<".", "t", "x", "t">>, <<".", "m", "p">>,
               <<".", "m", "p", "3", "x">>, <<".", "m", "p", "3", ".">>,
               <<".", "A", "I", "F", "F">> }

FormatNames == {st \o tl : st \in FormatStems, tl \in FormatTails}

FormatInit ==
    /\ variant \in Variants
    /\ apiKey = "ok"
    /\ hasFile = TRUE
    /\ fileName \in FormatNames
    /\ fileSize \in {MAX_SIZE, MAX_SIZE + 1}
    /\ fileBuffer = <<>>
    /\ now = 0
    /\ pc = "process"
    /\ tempFilePath = UploadPath(0, fileName)
    /\ disk = WriteFile(<<>>, UploadPath(0, fileName), UploadBytes(fileSize))
    /\ chunks = <<>>
    /\ chunksToClean = <<>>
    /\ i = 0
    /\ unit = -1
    /\ retryCount = 0
    /\ transcriptions = <<>>
    /\ error = NoError
    /\ result = NoResult
    /\ inflight = 0
    /\ callLog = <<>>
    /\ waitLog = <<>>
    /\ exitKind = "none"
    /\ pdfCalls = <<>>
    /\ response = NoResponse
    /\ peer = IdlePeer
    /\ firstRun = NoRun
    /\ page = ClosedPage

FormatNext ==
    \/ RejectFormat
    \/ StartDirect
    \/ StartSplit

FormatSpec == FormatInit /\ [][FormatNext]_vars

----------------------------------------------------------------------------
(* Two requests handled at the same time: the request of the model and a   *)
(* second one, the peer, which runs the same POST on the same scratch      *)
(* directory and the same clock. The peer's transcription calls touch no   *)
(* file and are left out.                                                  *)

\* what belongs to the first request alone
request == <<fileBuffer, pc, tempFilePath, chunks, chunksToClean, i, unit,
             retryCount, transcriptions, error, result, inflight, exitKind,
             response>>

\* the content the peer uploads, different from the first request's
PeerBytes(size) == [p \in 1..size |-> 128 + ((p - 1) % 128)]

\* the peer's tempFilePath = upload_<Date.now()>_<name> and its writeFile
PeerWriteUpload ==
    /\ peer.pc = "start"
    /\ \E t \in Clock :
         /\ now' = t
         /\ disk' = WriteFile(disk, UploadPath(t, peer.fileName),
                              PeerBytes(peer.fileSize))
         /\ peer' = [peer EXCEPT !.tempFilePath = UploadPath(t, peer.fileName),
                                 !.pc = IF IsDirect(peer.fileSize)
                                        THEN "done" ELSE "split"]
    /\ UNCHANGED <<variant, apiKey, hasFile, fileName, fileSize, history, request,
                   firstRun, page>>

\* the peer's splitMP3IntoChunks: writeFile(chunkPath, chunkBuffer)
PeerSplitWrite ==
    /\ peer.pc = "split"
    /\ peer.i < NumChunks(peer.fileSize)
    /\ \E t \in Clock :
         LET ext == extname(UploadBaseName(peer.tempFilePath.tail))
             chunkPath == ChunkPath(peer.i, t, ext)
             chunkBuffer == slice(PeerBytes(peer.fileSize), ChunkStart(peer.i),
                                  ChunkEnd(peer.i, peer.fileSize))
         IN  /\ now' = t
             /\ disk' = WriteFile(disk, chunkPath, chunkBuffer)
             /\ peer' = [peer EXCEPT !.chunks = Append(@, chunkPath),
                                     !.i = @ + 1]
    /\ UNCHANGED <<variant, apiKey, hasFile, fileName, fileSize, history, request,
                   firstRun, page>>

\* the peer's chunks are all written and transcribed: its finally block starts
PeerSplitReturn ==
    /\ peer.pc = "split"
    /\ peer.i >= NumChunks(peer.fileSize)
    /\ peer' = [peer EXCEPT !.i = 0, !.pc = "finally"]
    /\ UNCHANGED <<variant, apiKey, hasFile, fileName, fileSize, history, request,
                   now, disk, firstRun, page>>

\* the peer's finally block: unlink(chunk)
PeerFinallyUnlink ==
    /\ peer.pc = "finally"
    /\ peer.i < Len(peer.chunks)
    /\ disk' = Unlink(disk, peer.chunks[peer.i + 1])
    /\ peer' = [peer EXCEPT !.i = @ + 1]
    /\ UNCHANGED <<variant, apiKey, hasFile, fileName, fileSize, history, request,
                   now, firstRun, page>>

PeerFinallyExit ==
    /\ peer.pc = "finally"
    /\ peer.i >= Len(peer.chunks)
    /\ peer' = [peer EXCEPT !.pc = "done"]
    /\ UNCHANGED <<variant, apiKey, hasFile, fileName, fileSize, history, request,
                   now, disk, firstRun, page>>

\* both requests carry a supported file; the first is a chunked one
ConcInit ==
    /\ variant \in Variants
    /\ apiKey = "ok"
    /\ hasFile = TRUE
    /\ fileName \in {n \in FileNames : isSupportedFormat(n)}
    /\ fileSize = MAX_SIZE + 1
    /\ fileBuffer = <<>>
    /\ now = 0
    /\ pc = "start"
    /\ disk = <<>>
    /\ tempFilePath = NoPath
    /\ chunks = <<>>
    /\ chunksToClean = <<>>
    /\ i = 0
    /\ unit = -1
    /\ retryCount = 0
    /\ transcriptions = <<>>
    /\ error = NoError
    /\ result = NoResult
    /\ inflight = 0
    /\ callLog = <<>>
    /\ waitLog = <<>>
    /\ exitKind = "none"
    /\ pdfCalls = <<>>
    /\ response = NoResponse
    /\ \E n \in {n \in FileNames : isSupportedFormat(n)} :
       \E size \in {1, MAX_SIZE + 1} :
           peer = [IdlePeer EXCEPT !.pc = "start", !.fileName = n,
                                   !.fileSize = size]
    /\ firstRun = NoRun
    /\ page = ClosedPage

\* the first request on its path without failures, interleaved with the peer
ConcNext ==
    \/ WriteUploadOk
    \/ StartSplit
    \/ SplitWriteOk
    \/ SplitReturn
    \/ LoopNext
    \/ LoopEnd
    \/ CallApi
    \/ ApiOk
    \/ Join
    \/ FinallyUnlink
    \/ FinallyExit
    \/ RespondPdf
    \/ RespondError
    \/ PeerWriteUpload
    \/ PeerSplitWrite
    \/ PeerSplitReturn
    \/ PeerFinallyUnlink
    \/ PeerFinallyExit

ConcSpec == ConcInit /\ [][ConcNext]_vars

----------------------------------------------------------------------------
(* The two variants on the same request: the request is handled by one     *)
(* variant; when no call of that run failed with a connection error and    *)
(* the credential is a well-formed one, the run is recorded and the same   *)
(* request is handled again by the other variant, which meets the same     *)
(* clock readings, the same writeFile outcomes and the same API answers.   *)

\* POST's writeFile of the upload threw
UploadFailed == error.msg = "writeFile failed" /\ error.unit = 0

\* no API call failed with a connection error
NoTransient == \A k \in 1..Len(callLog) : ~callLog[k].transient

OtherVariant(v) == IF v = "route" THEN "part_000" ELSE "route"

\* the environment of the second run answers as it answered the first run
Follows ==
    firstRun # NoRun
        => /\ tempFilePath \in {NoPath, firstRun.tempFilePath}
           /\ tempFilePath # NoPath => (UploadFailed <=> firstRun.uploadFailed)
           /\ Len(chunks) <= Len(firstRun.chunks)
           /\ \A k \in 1..Len(chunks) : chunks[k] = firstRun.chunks[k]
           /\ exitKind = "splitFail"
                => (firstRun.exitKind = "splitFail" /\ chunks = firstRun.chunks)
           /\ Len(callLog) <= Len(firstRun.callLog)
           /\ \A k \in 1..Len(callLog) :
                 callLog[k].status # -1
                    => /\ callLog[k].status = firstRun.callLog[k].status
                       /\ callLog[k].transient = firstRun.callLog[k].transient
                       /\ callLog[k].text = firstRun.callLog[k].text

\* a step of the handler in an environment that follows the first run
GuidedStep == Next /\ Follows'

\* the first run is over: it is recorded and the other variant starts on the
\* same request, on an empty scratch directory
Restart ==
    /\ pc = "done"
    /\ firstRun = NoRun
    /\ apiKey = "ok"
    /\ NoTransient
    /\ firstRun' = [variant |-> variant, tempFilePath |-> tempFilePath,
                    chunks |-> chunks, disk |-> disk, callLog |-> callLog,
                    pdfCalls |-> pdfCalls, exitKind |-> exitKind,
                    uploadFailed |-> UploadFailed, response |-> response]
    /\ variant' = OtherVariant(variant)
    /\ fileBuffer' = <<>>
    /\ now' = 0
    /\ pc' = "start"
    /\ disk' = <<>>
    /\ tempFilePath' = NoPath
    /\ chunks' = <<>>
    /\ chunksToClean' = <<>>
    /\ i' = 0
    /\ unit' = -1
    /\ retryCount' = 0
    /\ transcriptions' = <<>>
    /\ error' = NoError
    /\ result' = NoResult
    /\ inflight' = 0
    /\ callLog' = <<>>
    /\ waitLog' = <<>>
    /\ exitKind' = "none"
    /\ pdfCalls' = <<>>
    /\ response' = NoResponse
    /\ UNCHANGED <<apiKey, hasFile, fileName, fileSize, peer, page>>

EquivNext ==
    \/ GuidedStep
    \/ Restart

EquivSpec == Init /\ [][EquivNext]_vars

----------------------------------------------------------------------------
(* The upload page (src/app/page.tsx) in front of the endpoint: the user   *)
(* picks or drops a file, submits it, the endpoint handles the request on  *)
(* its direct path, and the page handles the response. page.posted is the  *)
(* file in handleSubmit's closure; page.timer says that the reset of       *)
(* setTimeout(..., 3000) is scheduled; page.windowFile is history: the     *)
(* file the user selected while that reset was scheduled.                  *)

\* everything but the page and the form of the request
behind == <<variant, apiKey, peer, firstRun, history, fileBuffer, tempFilePath,
            chunks, chunksToClean, i, unit, retryCount, transcriptions, error,
            result, inflight, exitKind, response, now, disk>>

acceptedFormats ==
    { <<".", "m", "p", "3">>, <<".", "m", "p", "4">>,
      <<".", "m", "p", "e", "g">>, <<".", "m", "p", "g", "a">>,
      <<".", "m", "4", "a">>, <<".", "w", "a", "v">>,
      <<".", "w", "e", "b", "m">>, <<".", "a", "a", "c">> }

\* droppedFile.type.startsWith('audio/')
StartsWithAudio(type) == type \in {"audio/mpeg", "audio/aac", "audio/aiff"}

\* the files the user has at hand
PageFiles ==
    { [name |-> <<"a", ".", "M", "p", "3">>, type |-> "audio/mpeg"],
      [name |-> <<"b", ".", "a", "a", "c">>, type |-> "audio/aac"],
      [name |-> <<"c", ".", "A", "i", "f", "f">>, type |-> "audio/aiff"],
      [name |-> <<"d">>, type |-> "text/plain"] }

\* the file dialog of <input accept=...> offers the files with a listed extension
Offered(file) == toLowerCase(extname(file.name)) \in acceptedFormats

PageInit ==
    /\ variant \in Variants
    /\ apiKey = "ok"
    /\ hasFile = FALSE
    /\ fileName = <<>>
    /\ fileSize = 0
    /\ fileBuffer = <<>>
    /\ now = 0
    /\ pc = "idle"
    /\ disk = <<>>
    /\ tempFilePath = NoPath
    /\ chunks = <<>>
    /\ chunksToClean = <<>>
    /\ i = 0
    /\ unit = -1
    /\ retryCount = 0
    /\ transcriptions = <<>>
    /\ error = NoError
    /\ result = NoResult
    /\ inflight = 0
    /\ callLog = <<>>
    /\ waitLog = <<>>
    /\ exitKind = "none"
    /\ pdfCalls = <<>>
    /\ response = NoResponse
    /\ peer = IdlePeer
    /\ firstRun = NoRun
    /\ page = [ClosedPage EXCEPT !.open = TRUE]

\* handleFileChange: the input is disabled while isProcessing
HandleFileChange ==
    /\ page.open
    /\ ~page.isProcessing
    /\ \E selectedFile \in PageFiles :
         /\ Offered(selectedFile)
         /\ page' = [page EXCEPT !.file = selectedFile, !.error = "",
                                 !.transcription = "",
                                 !.windowFile = IF page.timer THEN selectedFile
                                                ELSE NoFile]
    /\ UNCHANGED <<behind, hasFile, fileName, fileSize, pc>>

\* handleDrop: the drop zone takes a drop at any time
HandleDrop ==
    /\ page.open
    /\ \E droppedFile \in PageFiles :
         IF StartsWithAudio(droppedFile.type)
         THEN page' = [page EXCEPT !.file = droppedFile, !.error = "",
                                   !.transcription = "",
                                   !.windowFile = IF page.timer THEN droppedFile
                                                  ELSE NoFile]
         ELSE page' = [page EXCEPT !.error = "Por favor, sube un archivo de audio valido"]
    /\ UNCHANGED <<behind, hasFile, fileName, fileSize, pc>>

\* the 'Cambiar archivo' button: setFile(null)
ChangeFile ==
    /\ page.open
    /\ page.file # NoFile
    /\ page' = [page EXCEPT !.file = NoFile, !.windowFile = NoFile]
    /\ UNCHANGED <<behind, hasFile, fileName, fileSize, pc>>

\* handleSubmit up to axios.post; the button is disabled without a file and
\* while isProcessing. The endpoint starts on the posted form.
HandleSubmit ==
    /\ page.open
    /\ page.file # NoFile
    /\ ~page.isProcessing
    /\ page' = [page EXCEPT !.isProcessing = TRUE, !.progress = 0,
                            !.error = "", !.transcription = "",
                            !.posted = page.file, !.awaiting = TRUE]
    /\ hasFile' = TRUE
    /\ fileName' = page.file.name
    /\ fileSize' = 1
    /\ pc' = "start"
    /\ fileBuffer' = <<>>
    /\ tempFilePath' = NoPath
    /\ chunks' = <<>>
    /\ chunksToClean' = <<>>
    /\ i' = 0
    /\ unit' = -1
    /\ retryCount' = 0
    /\ transcriptions' = <<>>
    /\ error' = NoError
    /\ result' = NoResult
    /\ inflight' = 0
    /\ callLog' = <<>>
    /\ waitLog' = <<>>
    /\ exitKind' = "none"
    /\ pdfCalls' = <<>>
    /\ response' = NoResponse
    /\ UNCHANGED <<variant, apiKey, peer, firstRun, now, disk>>

\* the callback of setInterval(..., 500): 10 more, up to 90
ProgressTick ==
    /\ page.awaiting
    /\ page.progress < 90
    /\ page' = [page EXCEPT !.progress = @ + 10]
    /\ UNCHANGED <<behind, hasFile, fileName, fileSize, pc>>

\* axios.post resolved: the download, the message, setTimeout(reset, 3000)
HandleResponseOk ==
    /\ page.awaiting
    /\ pc = "done"
    /\ response.status = 200
    /\ page' = [page EXCEPT !.awaiting = FALSE, !.progress = 100,
                            !.transcription = "Transcripcion completada",
                            !.timer = TRUE]
    /\ UNCHANGED <<behind, hasFile, fileName, fileSize, pc>>

\* axios.post rejected: the catch block
HandleResponseError ==
    /\ page.awaiting
    /\ pc = "done"
    /\ response.status # 200
    /\ page' = [page EXCEPT !.awaiting = FALSE, !.error = response.error.msg,
                            !.isProcessing = FALSE, !.progress = 0]
    /\ UNCHANGED <<behind, hasFile, fileName, fileSize, pc>>

\* the callback of setTimeout(..., 3000)
ResetTimer ==
    /\ page.timer
    /\ page' = [page EXCEPT !.file = NoFile, !.progress = 0,
                            !.isProcessing = FALSE, !.timer = FALSE]
    /\ UNCHANGED <<behind, hasFile, fileName, fileSize, pc>>

PageNext ==
    \/ HandleFileChange
    \/ HandleDrop
    \/ ChangeFile
    \/ HandleSubmit
    \/ ProgressTick
    \/ HandleResponseOk
    \/ HandleResponseError
    \/ ResetTimer
    \/ WriteUploadOk
    \/ WriteUploadFail
    \/ RejectFormat
    \/ StartDirect
    \/ CallApi
    \/ ApiOk
    \/ ApiFailRetry
    \/ RetryAfterWait
    \/ ApiFailThrow
    \/ Join
    \/ FinallyExit
    \/ RespondPdf
    \/ RespondError

PageSpec == PageInit /\ [][PageNext]_vars

----------------------------------------------------------------------------
(* Properties *)

\* processAudioFile has exited (returned to POST or thrown to it)
Exited == pc \in {"pdf", "catch", "done"}

ChunkedPath == fileSize > MAX_SIZE

\* ceil(a / b) as the least n with n * b >= a
CeilDiv(a, b) == CHOOSE n \in 0..a : n * b >= a /\ \A m \in 0..a : m * b >= a => n <= m

\* the log entries of the calls that have resolved with a failure
FailedCall(k) == callLog[k].status \notin {-1, 200}

\* a retry of the last call is under way (waiting, or about to call again)
RetryPending == pc = "wait" \/ (pc = "call" /\ retryCount > 0)

\* call k failed and its unit is not tried again
FailedForGood(k) ==
    /\ FailedCall(k)
    /\ IF k = Len(callLog) THEN ~RetryPending
       ELSE callLog[k + 1].unit # callLog[k].unit

\* the texts the API returned, in the order of the calls
RECURSIVE TextsFrom(_)
TextsFrom(k) ==
    IF k > Len(callLog) THEN <<>>
    ELSE IF callLog[k].status = 200 THEN <<callLog[k].text>> \o TextsFrom(k + 1)
    ELSE TextsFrom(k + 1)

ReturnedTexts == TextsFrom(1)

\* the units in the order of their first calls
RECURSIVE UnitsFrom(_)
UnitsFrom(k) ==
    IF k > Len(callLog) THEN <<>>
    ELSE IF callLog[k].attempt = 0 THEN <<callLog[k].unit>> \o UnitsFrom(k + 1)
    ELSE UnitsFrom(k + 1)

UnitsCalled == UnitsFrom(1)

ExpectedUnits ==
    IF fileSize <= MAX_SIZE THEN <<-1>>
    ELSE [k \in 1..CeilDiv(fileSize, CHUNK_SIZE) |-> k - 1]

Succeeded == pc = "done" /\ response.status = 200

\* C1: after processAudioFile has exited on the chunked path, by returning
\* the transcript or by throwing because a chunk's transcription failed for
\* good, no chunk file of the request is left on disk.
C1_NoChunkFileAfterExit ==
    (Exited /\ ChunkedPath /\ exitKind \in {"returned", "chunkFail"})
        => /\ ChunkFilesOnDisk = {}
           /\ \A k \in 1..Len(chunks) : chunks[k] \notin DOMAIN disk

C1_Witness ==
    /\ pc = "done"
    /\ exitKind = "chunkFail"
    /\ Len(chunks) >= 2
    /\ unit >= 1
    /\ ChunkFilesOnDisk = {}

C3_OneCallPerUnit ==
    Succeeded
        => /\ Len(callLog) = Len(ExpectedUnits)
           /\ \A k \in 1..Len(callLog) : callLog[k].unit = ExpectedUnits[k]

\* C3 amended: a successful run transcribes exactly one unit when
\* fileSize <= MAX_SIZE and exactly ceil(fileSize / CHUNK_SIZE) units when
\* fileSize > MAX_SIZE, the units in strictly ascending chunk order; a unit
\* costs one call plus one call for each of its retried connection failures,
\* so the number of calls is the number of units only where nothing was
\* retried, which is always so in route.ts.
C3_OneUnitPerChunk ==
    Succeeded
        => /\ UnitsCalled = ExpectedUnits
           /\ \A k \in 1..(Len(callLog) - 1) : callLog[k].unit <= callLog[k + 1].unit
           /\ Len(callLog) = Len(ExpectedUnits) + Len(waitLog)
           /\ variant = "route" => Len(callLog) = Len(ExpectedUnits)
           /\ Len(waitLog) = 0 => Len(callLog) = Len(ExpectedUnits)

C3_Witness ==
    /\ Succeeded
    /\ Len(chunks) = 3
    /\ Len(callLog) > 3
    /\ UnitsCalled = <<0, 1, 2>>

\* C4: splitMP3IntoChunks returns exactly ceil(S / C) chunks, chunk k holds
\* the bytes [k*C, min((k+1)*C, S)) of the file, each byte of the file is in
\* exactly one chunk, and the chunks concatenated in index order are the file.
RECURSIVE ConcatChunks(_)
ConcatChunks(k) ==
    IF k > Len(chunks) THEN <<>> ELSE disk[chunks[k]] \o ConcatChunks(k + 1)

RangeLow(k) == (k - 1) * CHUNK_SIZE
RangeHigh(k) == IF k * CHUNK_SIZE < fileSize THEN k * CHUNK_SIZE ELSE fileSize

C4_ChunksPartitionFile ==
    /\ pc = "split"
        => \A k \in 1..Len(chunks) :
              /\ chunks[k] \in DOMAIN disk
              /\ disk[chunks[k]] =
                    [p \in 1..(RangeHigh(k) - RangeLow(k)) |->
                        UploadBytes(fileSize)[RangeLow(k) + p]]
    /\ pc = "loop"
        => /\ Len(chunks) = CeilDiv(fileSize, CHUNK_SIZE)
           /\ Len(chunksToClean) = Len(chunks)
           /\ \A k \in 1..Len(chunks) :
                 /\ chunks[k] \in DOMAIN disk
                 /\ chunks[k].idx = k - 1
                 /\ disk[chunks[k]] =
                       [p \in 1..(RangeHigh(k) - RangeLow(k)) |->
                           UploadBytes(fileSize)[RangeLow(k) + p]]
           /\ ConcatChunks(1) = UploadBytes(fileSize)
           /\ ConcatChunks(1) = disk[tempFilePath]

C4_Witness ==
    /\ pc = "loop"
    /\ Len(chunks) = 3
    /\ fileSize % CHUNK_SIZE # 0
    /\ ConcatChunks(1) = UploadBytes(fileSize)

\* C5: the transcript processAudioFile returns is the fragments joined with
\* "\n\n" in ascending chunk order: every fragment the API returned, blank
\* ones included, is there exactly once and in its place.
RECURSIVE JoinedInOrder(_)
JoinedInOrder(frags) ==
    IF frags = <<>> THEN <<>>
    ELSE IF Len(frags) = 1 THEN frags[1]
    ELSE frags[1] \o <<"\n", "\n">> \o JoinedInOrder(Tail(frags))

C5_TranscriptIsOrderedJoin ==
    exitKind = "returned"
        => /\ result = JoinedInOrder(ReturnedTexts)
           /\ Len(ReturnedTexts) = Len(ExpectedUnits)
           /\ \A k \in 1..Len(pdfCalls) : pdfCalls[k].text = JoinedInOrder(ReturnedTexts)
           /\ Succeeded => response.transcript = JoinedInOrder(ReturnedTexts)

C5_Witness ==
    /\ exitKind = "returned"
    /\ Len(ReturnedTexts) = 3
    /\ ReturnedTexts[1] = <<"a">>
    /\ ReturnedTexts[2] = <<>>
    /\ ReturnedTexts[3] = <<"a">>
    /\ result = <<"a", "\n", "\n", "\n", "\n", "a">>

\* C6: the uploaded file that POST wrote to the scratch directory is gone at
\* the end of the request, on the success path as on the error paths.
C6_UploadDeletedAtEnd ==
    pc = "done" => UploadFilesOnDisk = {}

\* C7: when splitMP3IntoChunks fails after it has written chunk files
\* 0..k-1, those files are gone when processAudioFile has exited.
C7_SplitFailureLeavesNoChunk ==
    (Exited /\ exitKind = "splitFail") => ChunkFilesOnDisk = {}

\* C8: the file of chunk i is gone when the call for chunk i+1 starts.
C8_ChunkDeletedBeforeNextCall ==
    (pc \in {"call", "await"} /\ unit >= 1) => chunks[unit] \notin DOMAIN disk

\* the calls and the waits of one unit, in order
CallsOf(u) == SelectSeq(callLog, LAMBDA e : e.unit = u)
WaitsOf(u) == SelectSeq(waitLog, LAMBDA e : e.unit = u)

Units == {callLog[k].unit : k \in 1..Len(callLog)}

FatalConnectionMessage == "Error de conexion con OpenAI despues de varios intentos"

\* what POST's error says about the failed call: the message itself on the
\* direct path, the cause inside the fragment message on the chunked path
Surfaced(e) == IF e.cause = "none" THEN e.msg ELSE e.cause

\* C9: in part_000 a unit whose calls fail with a connection failure is
\* called again at most 3 times, after waits of 2000, 4000 and 6000 ms; when
\* the 4th call fails the same way the fatal connection error is thrown and
\* no call follows; every unit starts with retry count 0, whatever the units
\* before it used up.
C9_BoundedLinearRetry ==
    variant = "part_000"
        => /\ \A u \in Units :
                LET calls == CallsOf(u)
                    waits == WaitsOf(u)
                IN  /\ Len(calls) <= 4
                    /\ Len(waits) <= 3
                    /\ \A n \in 1..Len(calls) : calls[n].attempt = n - 1
                    /\ \A n \in 1..Len(waits) :
                          /\ waits[n].ms = <<2000, 4000, 6000>>[n]
                          /\ calls[n].transient
                    /\ Len(waits) \in {Len(calls) - 1, Len(calls)}
                    /\ Len(waits) = Len(calls) => (u = unit /\ RetryPending)
           /\ \A k \in 1..Len(callLog) :
                (callLog[k].attempt = 3 /\ callLog[k].transient)
                    => /\ k = Len(callLog)
                       /\ pc \in {"chunkcatch", "finally", "catch", "done"}
                       /\ Surfaced(error) = FatalConnectionMessage
                       /\ pc = "done" => /\ response.status = 500
                                         /\ Surfaced(response.error) = FatalConnectionMessage

C9_Witness ==
    /\ variant = "part_000"
    /\ pc = "done"
    /\ Len(CallsOf(0)) = 3
    /\ Len(CallsOf(1)) = 4
    /\ callLog[Len(callLog)].transient
    /\ WaitsOf(1) = << [unit |-> 1, ms |-> 2000], [unit |-> 1, ms |-> 4000],
                       [unit |-> 1, ms |-> 6000] >>

\* the message under which a 401, 429 or 413 reaches the caller
FatalStatusMessages(st) ==
    CASE st = 401 -> {"API key de OpenAI invalida", "401 Unauthorized"}
      [] st = 429 -> {"Limite de rate excedido", "429 Too Many Requests"}
      [] st = 413 -> {"El archivo es demasiado grande para este fragmento",
                      "413 Payload Too Large"}

\* C10: a call that fails with 401, 429 or 413 is the last call of the
\* request, also when the calls of the unit before it were retried connection
\* failures: nothing is retried, transcribeAudio throws and the failure is
\* what the error response reports.
C10_FatalStatusNotRetried ==
    \A k \in 1..Len(callLog) :
        callLog[k].status \in {401, 429, 413}
            => /\ k = Len(callLog)
               /\ pc \in {"chunkcatch", "finally", "catch", "done"}
               /\ Surfaced(error) \in FatalStatusMessages(callLog[k].status)
               /\ pdfCalls = <<>>
               /\ pc = "done"
                    => /\ response.status = 500
                       /\ Surfaced(response.error) \in FatalStatusMessages(callLog[k].status)

C10_Witness ==
    /\ pc = "done"
    /\ Len(callLog) >= 2
    /\ callLog[Len(callLog)].status = 429
    /\ callLog[Len(callLog)].attempt = 2
    /\ response.status = 500

RejectedNames ==
    { [name |-> <<"c", ".", "A", "i", "f", "f">>, ext |-> <<".", "a", "i", "f", "f">>],
      [name |-> <<"d">>, ext |-> <<>>] }

\* C12: a request whose file name has an extension outside the allow-list is
\* rejected whatever its size: no transcription call is ever made for it, no
\* chunk file is ever created, no document is rendered, and once the upload
\* is written the request ends with the 500 response whose error is the
\* format error naming the extension in lower case.
C12_UnsupportedRejectedFirst ==
    \A r \in RejectedNames :
        fileName = r.name
            => /\ callLog = <<>>
               /\ inflight = 0
               /\ chunks = <<>>
               /\ ChunkFilesOnDisk = {}
               /\ pdfCalls = <<>>
               /\ pc \in {"start", "process", "catch", "done"}
               /\ exitKind \in {"none", "format"}
               /\ exitKind = "format"
                    => /\ error.msg = "Formato no soportado"
                       /\ error.ext = r.ext
               /\ (pc \in {"catch", "done"} /\ tempFilePath \in DOMAIN disk)
                    => exitKind = "format"
               /\ (pc = "done" /\ exitKind = "format")
                    => /\ response.status = 500
                       /\ response.kind = "json"
                       /\ response.error.msg = "Formato no soportado"
                       /\ response.error.ext = r.ext

C12_Witness ==
    /\ pc = "done"
    /\ fileName = <<"c", ".", "A", "i", "f", "f">>
    /\ fileSize > MAX_SIZE
    /\ exitKind = "format"
    /\ response.error.ext = <<".", "a", "i", "f", "f">>
    /\ callLog = <<>>

\* a fragment that is empty or made of white space only
Blank(f) == \A k \in 1..Len(f) : f[k] \in {" ", "\n"}

NoTranscriptionMessage == "No se pudo obtener ninguna transcripcion"

\* C13: when every unit has been transcribed, processAudioFile throws the
\* 'no transcription obtained' error exactly when every fragment is blank;
\* then no transcript is returned, no document is rendered and the request
\* ends with the 500 response carrying that error; when at least one
\* fragment is not blank the joined transcript is returned.
C13_EmptyIffAllBlank ==
    LET allBlank == \A k \in 1..Len(ReturnedTexts) : Blank(ReturnedTexts[k])
    IN  /\ exitKind \in {"empty", "returned"}
            => /\ Len(ReturnedTexts) = Len(ExpectedUnits)
               /\ exitKind = "empty" <=> allBlank
        /\ error.msg = NoTranscriptionMessage <=> exitKind = "empty"
        /\ exitKind = "empty"
            => /\ result = NoResult
               /\ pdfCalls = <<>>
               /\ pc \in {"finally", "catch", "done"}
               /\ pc = "done" => /\ response.status = 500
                                 /\ response.kind = "json"
                                 /\ response.transcript = <<>>
                                 /\ response.error.msg = NoTranscriptionMessage
        /\ exitKind = "returned"
            => /\ ~allBlank
               /\ result = JoinedInOrder(ReturnedTexts)
               /\ error = NoError

C13_Witness ==
    /\ pc = "done"
    /\ exitKind = "empty"
    /\ Len(ReturnedTexts) = 3
    /\ ReturnedTexts[1] = <<" ">>
    /\ ReturnedTexts[2] = <<>>
    /\ response.error.msg = NoTranscriptionMessage

\* C14: of two requests handled at the same time, the upload path and every
\* chunk path of one differ from those of the other.
C14_OwnTempFiles ==
    /\ (tempFilePath # NoPath /\ peer.tempFilePath # NoPath)
         => tempFilePath # peer.tempFilePath
    /\ \A k \in 1..Len(chunks) : \A m \in 1..Len(peer.chunks) :
          chunks[k] # peer.chunks[m]

AllowedExtensions ==
    { <<"f", "l", "a", "c">>, <<"m", "4", "a">>, <<"m", "p", "3">>,
      <<"m", "p", "4">>, <<"m", "p", "e", "g">>, <<"m", "p", "g", "a">>,
      <<"o", "g", "a">>, <<"o", "g", "g">>, <<"w", "a", "v">>,
      <<"w", "e", "b", "m">> }

\* a capital letter and its small letter
CasePairs ==
    { <<"A", "a">>, <<"B", "b">>, <<"C", "c">>, <<"D", "d">>, <<"E", "e">>,
      <<"F", "f">>, <<"G", "g">>, <<"H", "h">>, <<"I", "i">>, <<"J", "j">>,
      <<"K", "k">>, <<"L", "l">>, <<"M", "m">>, <<"N", "n">>, <<"O", "o">>,
      <<"P", "p">>, <<"Q", "q">>, <<"R", "r">>, <<"S", "s">>, <<"T", "t">>,
      <<"U", "u">>, <<"V", "v">>, <<"W", "w">>, <<"X", "x">>, <<"Y", "y">>,
      <<"Z", "z">> }

SameLetter(c, d) == c = d \/ <<c, d>> \in CasePairs

\* the name is a non-empty stem, a dot and the extension e in any case
EndsWithExtension(name, e) ==
    /\ Len(name) >= Len(e) + 2
    /\ name[Len(name) - Len(e)] = "."
    /\ \A k \in 1..Len(e) : SameLetter(name[Len(name) - Len(e) + k], e[k])

\* C16: the format check lets a file name through exactly when its final
\* extension, whatever the case of its letters, is in the allow-list; a name
\* with no extension, with another extension or with an allow-listed
\* extension that is not the final one is rejected with the format error.
C16_AllowListDecides ==
    LET allowed == \E e \in AllowedExtensions : EndsWithExtension(fileName, e)
    IN  pc # "process"
            => /\ pc \in {"call", "split"} <=> allowed
               /\ (pc = "catch" /\ exitKind = "format") <=> ~allowed

C16_Witness ==
    /\ pc = "split"
    /\ fileName = <<"a", ".", "m", "p", "3", ".", "W", "E", "B", "M">>

\* the response is the document with status 200, or a JSON error with a
\* status outside 2xx
WellFormedResponse ==
    \/ /\ response.status = 200
       /\ response.kind = "pdf"
       /\ response.error = NoError
    \/ /\ response.status \in {400, 500}
       /\ response.kind = "json"
       /\ response.error # NoError

\* C17: every request is answered, once: the handler reaches its end, where
\* the response is the 200 document or a JSON error outside 2xx; no response
\* exists before the end and the response never changes once given; on the
\* way a unit is called at most 4 times (once in route.ts) and the loop
\* calls at most ceil(fileSize / CHUNK_SIZE) chunks.
C17_AnsweredOnce ==
    /\ <>(pc = "done")
    /\ [](pc = "done" <=> response # NoResponse)
    /\ [](pc = "done" => WellFormedResponse)
    /\ [][response # NoResponse => response' = response]_vars
    /\ [](\A u \in Units :
            Len(CallsOf(u)) <= IF variant = "route" THEN 1 ELSE MAX_RETRIES + 1)
    /\ [](\A u \in Units : u < CeilDiv(fileSize, CHUNK_SIZE))

C17_Witness ==
    /\ pc = "done"
    /\ Len(chunks) = 3
    /\ Len(CallsOf(0)) = 4
    /\ Len(CallsOf(2)) = 4
    /\ response.status = 200

\* C18: when the credential is well formed and no call fails with a
\* connection error, the second variant, given the same request and the same
\* answers of the environment, can always take its next step, makes the same
\* calls on the same files in the same order, and ends with the same files
\* created and left on disk, the same calls and answers, the same document
\* rendered and the same response status, kind and transcript as the first.
C18_VariantsAgree ==
    firstRun # NoRun
        => /\ variant = OtherVariant(firstRun.variant)
           /\ Len(callLog) <= Len(firstRun.callLog)
           /\ \A k \in 1..Len(callLog) :
                 /\ callLog[k].unit = firstRun.callLog[k].unit
                 /\ callLog[k].attempt = firstRun.callLog[k].attempt
                 /\ callLog[k].path = firstRun.callLog[k].path
           /\ pc # "done" => ENABLED GuidedStep
           /\ pc = "done"
                => /\ callLog = firstRun.callLog
                   /\ tempFilePath = firstRun.tempFilePath
                   /\ chunks = firstRun.chunks
                   /\ disk = firstRun.disk
                   /\ pdfCalls = firstRun.pdfCalls
                   /\ response.status = firstRun.response.status
                   /\ response.kind = firstRun.response.kind
                   /\ response.transcript = firstRun.response.transcript

C18_Witness ==
    /\ firstRun # NoRun
    /\ pc = "done"
    /\ variant = "part_000"
    /\ Len(chunks) = 3
    /\ Len(callLog) = 2
    /\ callLog[2].status = 429
    /\ response.status = 500
    /\ response.error # firstRun.response.error

\* C19: a request with no credential, with a credential that part_000 finds
\* malformed, or with no 'audio' field is answered at once, with status 500,
\* 500 and 400 in that order of tests: no upload path is made, nothing is
\* ever written to the scratch directory and no API call is made.
C19_EarlyRejectionLeavesNothing ==
    LET noKey == apiKey = "missing"
        badKey == apiKey = "bad" /\ variant = "part_000"
    IN  (noKey \/ badKey \/ ~hasFile)
            => /\ pc \in {"start", "done"}
               /\ disk = <<>>
               /\ tempFilePath = NoPath
               /\ chunks = <<>>
               /\ callLog = <<>>
               /\ inflight = 0
               /\ pdfCalls = <<>>
               /\ pc = "done"
                    => /\ response.kind = "json"
                       /\ response.status = IF noKey \/ badKey THEN 500 ELSE 400
                       /\ response.error.msg =
                             IF noKey THEN "API Key de OpenAI no configurada"
                             ELSE IF badKey THEN "API Key de OpenAI invalida"
                             ELSE "No se encontro el archivo de audio"

C19_Witness ==
    /\ pc = "done"
    /\ apiKey = "bad"
    /\ variant = "part_000"
    /\ hasFile
    /\ response.status = 500
    /\ disk = <<>>

\* C20: once splitMP3IntoChunks has returned, the file was larger than
\* MAX_SIZE, there are at least 2 chunks, and as long as no chunk has been
\* unlinked every chunk file is non-empty and at most CHUNK_SIZE long, hence
\* shorter than MAX_SIZE, and every chunk but the last is exactly CHUNK_SIZE
\* long.
C20_ChunkSizes ==
    pc \in {"loop", "call", "await", "wait", "chunkcatch", "join"} /\ chunksToClean # <<>>
        => /\ fileSize > MAX_SIZE
           /\ Len(chunks) >= 2
           /\ \A k \in 1..Len(chunks) :
                 /\ chunks[k] \in DOMAIN disk
                 /\ Len(disk[chunks[k]]) >= 1
                 /\ Len(disk[chunks[k]]) <= CHUNK_SIZE
                 /\ Len(disk[chunks[k]]) < MAX_SIZE
                 /\ k < Len(chunks) => Len(disk[chunks[k]]) = CHUNK_SIZE

C20_Witness ==
    /\ pc = "loop"
    /\ Len(chunks) = 3
    /\ Len(disk[chunks[3]]) = 1
    /\ Len(disk[chunks[2]]) = CHUNK_SIZE

\* C21: a file that the page let the user select and submit is never
\* rejected by the endpoint as an unsupported format.
C21_PickedFileIsSupported ==
    (page.open /\ page.posted # NoFile) => exitKind # "format"

\* C22: a file other than the posted one that the user selected while the
\* reset was scheduled is still the selected file when the reset callback
\* has run.
C22_ResetKeepsNewFile ==
    (page.windowFile # NoFile /\ page.windowFile # page.posted /\ ~page.timer)
        => page.file = page.windowFile

====
